---------------------------- MODULE Spec2Model ----------------------------
(***************************************************************************)
(* The scoring recalculation engine of the drag-race fantasy league        *)
(* (lib/queries: recalculateScores, formatMultipliers, saveRosterSelection)*)
(* over the tables rosters, league_members, queen_box_scores,              *)
(* user_queen_scores and league_standings.                                 *)
(*                                                                         *)
(* The source holds two revisions of lib/queries.  Revision 1 is           *)
(* src/astro.config.mjs lines 16-335, revision 2 is lines 336-578.  The    *)
(* variable `version` says which revision is deployed; it never changes.   *)
(*                                                                         *)
(* Numbers: a stored SQL numeric is an integer count of tenths (2.5 is 25, *)
(* 17.5 is 175).  A JS number is a record [nan, v]: NaN, or v tenths.      *)
(* Raw box-score points are whole numbers, so raw * multiplier is exact.   *)
(*                                                                         *)
(* Strings that are parsed (setting values) are sequences of one-character *)
(* strings, so that parseFloat is computed, not assumed.                   *)
(***************************************************************************)
EXTENDS Integers, Sequences, FiniteSets, TLC

----------------------------------------------------------------------------
(* Bounds of the model                                                     *)

\* saveRosterSelection calls in one behaviour
MaxSaves == 2
\* recalculateScores runs in one behaviour
MaxRuns == 2

Users == {"u1", "u2"}
Leagues == {"l1", "l2"}
Queens == {"qa", "qb"}
Episodes == {1, 2}
\* ranks a selection may carry: 1 and 2 are configured ranks, 5 is outside 1..4
Ranks == {1, 2, 5}

\* JS numbers
NaN == [nan |-> TRUE, v |-> 0]

Num(t) == [nan |-> FALSE, v |-> t]

----------------------------------------------------------------------------
(* parseFloat                                                              *)

Digits == <<"0", "1", "2", "3", "4", "5", "6", "7", "8", "9">>

IsDigit(c) == \E i \in 1..10 : Digits[i] = c

DigitVal(c) == (CHOOSE i \in 1..10 : Digits[i] = c) - 1

RECURSIVE SkipSpaces(_)
SkipSpaces(s) ==
    IF s # <<>> /\ Head(s) = " " THEN SkipSpaces(Tail(s)) ELSE s

\* the longest prefix of s made of digits
RECURSIVE DigitPrefix(_)
DigitPrefix(s) ==
    IF s # <<>> /\ IsDigit(Head(s))
    THEN <<Head(s)>> \o DigitPrefix(Tail(s))
    ELSE <<>>

RECURSIVE DigitsValue(_, _)
DigitsValue(ds, acc) ==
    IF ds = <<>> THEN acc ELSE DigitsValue(Tail(ds), acc * 10 + DigitVal(Head(ds)))

\* The suffix of s after its first n elements
Drop(s, n) == SubSeq(s, n + 1, Len(s))

\* JS parseFloat on a string: leading blanks, an optional sign, digits, an
\* optional fraction; trailing text is ignored; no digit at all gives NaN.
\* The value is in tenths; fraction digits after the first are cut (the
\* strings of this model carry at most one).
parseFloat(str) ==
    LET s0 == SkipSpaces(str)
        neg == s0 # <<>> /\ Head(s0) = "-"
        s1 == IF s0 # <<>> /\ Head(s0) \in {"-", "+"} THEN Tail(s0) ELSE s0
        ip == DigitPrefix(s1)
        s2 == Drop(s1, Len(ip))
        fp == IF s2 # <<>> /\ Head(s2) = "." THEN DigitPrefix(Tail(s2)) ELSE <<>>
        mag == DigitsValue(ip, 0) * 10 + (IF fp = <<>> THEN 0 ELSE DigitVal(fp[1]))
    IN  IF ip = <<>> /\ fp = <<>> THEN NaN
        ELSE IF neg THEN Num(0 - mag) ELSE Num(mag)

\* JS truthiness of a number: 0 and NaN are falsy
Truthy(n) == ~n.nan /\ n.v # 0

\* JS `a || b` on numbers (a may be absent: pass NaN for undefined)
OrElse(a, b) == IF Truthy(a) THEN a ELSE b

----------------------------------------------------------------------------
(* Settings and the rank multipliers                                       *)

MultKeys == [r \in 1..4 |->
    CASE r = 1 -> "multiplier_rank_1"
      [] r = 2 -> "multiplier_rank_2"
      [] r = 3 -> "multiplier_rank_3"
      [] r = 4 -> "multiplier_rank_4"]

\* settings.key || dflt : an absent key and the empty string give the default
SettingOr(settings, key, dflt) ==
    IF key \in DOMAIN settings /\ settings[key] # <<>> THEN settings[key] ELSE dflt

DefaultsV1 == <<<<"2", ".", "5">>, <<"2", ".", "0">>, <<"1", ".", "5">>, <<"1", ".", "0">>>>

DefaultsV2 == <<<<"2", ".", "0">>, <<"1", ".", "5">>, <<"1", ".", "0">>, <<"0", ".", "5">>>>

formatMultipliersV1(settings) ==
    [r \in 1..4 |-> parseFloat(SettingOr(settings, MultKeys[r], DefaultsV1[r]))]

formatMultipliersV2(settings) ==
    [r \in 1..4 |-> parseFloat(SettingOr(settings, MultKeys[r], DefaultsV2[r]))]

\* mults[rank] || 1.0, in tenths (an absent rank reads undefined, falsy as NaN)
MultiplierFor(mults, rank) ==
    OrElse(IF rank \in DOMAIN mults THEN mults[rank] ELSE NaN, Num(10)).v

\* a * b for a, b in tenths, one of them whole
Times(a, b) == (a * b) \div 10

\* The decimal text of a whole number, as the SQL driver hands SUM(points) over
RECURSIVE NatToString(_)
NatToString(n) ==
    IF n < 10 THEN <<Digits[n + 1]>>
    ELSE NatToString(n \div 10) \o <<Digits[(n % 10) + 1]>>

IntToString(n) == IF n < 0 THEN <<"-">> \o NatToString(0 - n) ELSE NatToString(n)

----------------------------------------------------------------------------
(* The tables                                                              *)

VARIABLES
    version,    \* 1 or 2: the revision of lib/queries that is deployed
    leagues,    \* leagues: a set of [id, code, by]
    members,    \* league_members: a set of rows [id, league, user]
    reqs,       \* the league requests in flight, see NoRequest
    box,        \* queen_box_scores: a set of [id, queen, ep, points]
    settings,   \* settings: key -> value (a string, as a sequence of characters)
    rosters,    \* rosters: a bag (row -> number of copies) of RosterRow
    scores,     \* user_queen_scores: a set of ScoreRow
    standings,  \* league_standings: a set of [user, league, total]
    saves,      \* saveRosterSelection calls so far
    runs,       \* recalculateScores runs so far
    last,       \* the last completed handler, see NoRun
    proc,       \* the recalculateScores calls in flight, see Idle
    saver,      \* the saveRosterSelection call in flight, see NoSave
    failures    \* datastore statements that have failed so far

vars == <<version, leagues, reqs, members, box, settings, rosters, scores, standings, saves, runs, last,
          proc, saver, failures>>

\* The state of the calls in flight
inflight == <<proc, saver, failures>>

RosterRow == [user : Users, league : Leagues, ep : Episodes, queen : Queens, rank : Ranks]

\* one element of a `selections` array
Selection == [queen_name : Queens, rank : Ranks]

----------------------------------------------------------------------------
(* saveRosterSelection                                                     *)

\* A DELETE that removes nothing: the new selections are merged into the old
DeleteNothing(ros, u, l, e) == ros

\* DELETE FROM rosters WHERE user_id = u AND league_id = l AND episode_number = e
DeleteRoster(ros, u, l, e) ==
    LET keep == {r \in DOMAIN ros : ~(r.user = u /\ r.league = l /\ r.ep = e)}
    IN  [r \in keep |-> ros[r]]

\* INSERT INTO rosters (user_id, league_id, queen_name, rank, episode_number)
InsertRoster(ros, u, l, e, s) ==
    LET row == [user |-> u, league |-> l, ep |-> e, queen |-> s.queen_name, rank |-> s.rank]
    IN  [r \in DOMAIN ros \cup {row} |->
            IF r = row THEN (IF r \in DOMAIN ros THEN ros[r] + 1 ELSE 1) ELSE ros[r]]

\* for (const s of selections) INSERT ...
RECURSIVE InsertSelections(_, _, _, _, _)
InsertSelections(ros, u, l, e, sel) ==
    IF sel = <<>> THEN ros
    ELSE InsertSelections(InsertRoster(ros, u, l, e, Head(sel)), u, l, e, Tail(sel))

saveRosterSelection(ros, u, l, e, sel) ==
    InsertSelections(DeleteRoster(ros, u, l, e), u, l, e, sel)

----------------------------------------------------------------------------
(* recalculateScores: the reads                                            *)

\* SUM(points) over the queen_box_scores rows of (queen q, episode e)
RECURSIVE SumPointsOf(_)
SumPointsOf(rows) ==
    IF rows = {} THEN 0
    ELSE LET r == CHOOSE x \in rows : TRUE
         IN  r.points + SumPointsOf(rows \ {r})

BoxRows(bx, q, e) == {b \in bx : b.queen = q /\ b.ep = e}

\* revision 1, step 1: the roster rows of episode e, with their copies
AllRosters(ros, e) == {r \in DOMAIN ros : r.ep = e}

\* revision 1, step 2: queen -> SUM(points), for the queens with a row in e
PointsMap(bx, e) ==
    [q \in {b.queen : b \in {x \in bx : x.ep = e}} |->
        IntToString(SumPointsOf(BoxRows(bx, q, e)))]

\* parseFloat(pointsMap[queen] || 0), in tenths
RawPointsV1(pm, q) ==
    IF q \in DOMAIN pm /\ pm[q] # <<>> THEN parseFloat(pm[q]).v ELSE 0

\* revision 1, step 3: the row the loop writes for roster row r
CandidateV1(r, pm, mults) ==
    [user |-> r.user, league |-> r.league, queen |-> r.queen, ep |-> r.ep,
     points |-> Times(RawPointsV1(pm, r.queen), MultiplierFor(mults, r.rank)),
     rank |-> r.rank]

CandidatesV1(ros, bx, sett, e) ==
    {CandidateV1(r, PointsMap(bx, e), formatMultipliersV1(sett)) : r \in AllRosters(ros, e)}

\* revision 2, step 1: rosters JOIN league_members ON user, LEFT JOIN box scores,
\* GROUP BY r.user_id, lm.league_id, r.rank, r.queen_name.  A group holds every
\* joined row of its (user, rank, queen), whatever the roster row's own league,
\* each with every box-score row of the queen: SUM(qbs.points) adds them all.
GroupRosterRows(ros, e, u, rk, q) ==
    {r \in DOMAIN ros : r.ep = e /\ r.user = u /\ r.rank = rk /\ r.queen = q}

RECURSIVE CopiesOf(_, _)
CopiesOf(ros, rows) ==
    IF rows = {} THEN 0
    ELSE LET r == CHOOSE x \in rows : TRUE
         IN  ros[r] + CopiesOf(ros, rows \ {r})

EpPoints(ros, mem, bx, e) ==
    {[user_id |-> j[1].user, league_id |-> j[2].league, rank |-> j[1].rank,
      queen_name |-> j[1].queen,
      raw_points |-> IntToString(
          CopiesOf(ros, GroupRosterRows(ros, e, j[1].user, j[1].rank, j[1].queen))
            * SumPointsOf(BoxRows(bx, j[1].queen, e)))] :
        j \in {x \in AllRosters(ros, e) \X mem : x[1].user = x[2].user}}

\* revision 2, step 2: the row the loop writes for row `row` of epPoints
CandidateV2(row, e, multipliers) ==
    [user |-> row.user_id, league |-> row.league_id, queen |-> row.queen_name, ep |-> e,
     points |-> Times(parseFloat(row.raw_points).v, MultiplierFor(multipliers, row.rank)),
     rank |-> row.rank]

CandidatesV2(ros, mem, bx, e, multipliers) ==
    {CandidateV2(row, e, multipliers) : row \in EpPoints(ros, mem, bx, e)}

----------------------------------------------------------------------------
(* recalculateScores: the writes                                           *)

\* A conflict target without the episode
KeyWithoutEpisode(s) == <<s.user, s.rank>>

\* The ON CONFLICT target of the INSERT INTO user_queen_scores
ConflictKeyV1(s) == <<s.user, s.league, s.queen, s.ep>>

ConflictKeyV2(s) == <<s.user, s.rank, s.ep>>

\* INSERT ... ON CONFLICT (user_id, league_id, queen_name, episode_number)
\* DO UPDATE SET calculated_points, rank
UpsertScoreV1(sc, c) ==
    IF \E s \in sc : ConflictKeyV1(s) = ConflictKeyV1(c)
    THEN {IF ConflictKeyV1(s) = ConflictKeyV1(c)
          THEN [s EXCEPT !.points = c.points, !.rank = c.rank]
          ELSE s : s \in sc}
    ELSE sc \cup {c}

\* INSERT ... ON CONFLICT (user_id, rank, episode_number)
\* DO UPDATE SET queen_name, calculated_points, league_id
UpsertScoreV2(sc, c) ==
    IF \E s \in sc : ConflictKeyV2(s) = ConflictKeyV2(c)
    THEN {IF ConflictKeyV2(s) = ConflictKeyV2(c)
          THEN [s EXCEPT !.queen = c.queen, !.points = c.points, !.league = c.league]
          ELSE s : s \in sc}
    ELSE sc \cup {c}

UpsertScore(v, sc, c) == IF v = 1 THEN UpsertScoreV1(sc, c) ELSE UpsertScoreV2(sc, c)

ConflictKey(v, s) == IF v = 1 THEN ConflictKeyV1(s) ELSE ConflictKeyV2(s)

\* The loop over the rows a SELECT without ORDER BY returned, in the order `order`
RECURSIVE UpsertInOrder(_, _, _)
UpsertInOrder(v, sc, order) ==
    IF order = <<>> THEN sc
    ELSE UpsertInOrder(v, UpsertScore(v, sc, Head(order)), Tail(order))

\* Some enumeration of a finite set
RECURSIVE SomeOrder(_)
SomeOrder(S) ==
    IF S = {} THEN <<>>
    ELSE LET x == CHOOSE y \in S : TRUE IN <<x>> \o SomeOrder(S \ {x})

\* The tables the loop may leave, over every order of the rows.  SQL leaves the
\* order of the rows open.  Two rows with different conflict keys write
\* different rows of the table, so only the order among the rows of one key
\* tells: each key's rows are taken together, any one of them last.
RECURSIVE PersistAll(_, _, _)
PersistAll(v, sc, pending) ==
    IF pending = {} THEN {sc}
    ELSE LET c == CHOOSE x \in pending : TRUE
             group == {x \in pending : ConflictKey(v, x) = ConflictKey(v, c)}
         IN  UNION {PersistAll(v,
                        UpsertInOrder(v, sc, SomeOrder(group \ {w}) \o <<w>>),
                        pending \ group) : w \in group}

\* SELECT user_id, league_id, SUM(calculated_points) FROM user_queen_scores
\* GROUP BY user_id, league_id
RECURSIVE SumScores(_)
SumScores(rows) ==
    IF rows = {} THEN 0
    ELSE LET r == CHOOSE x \in rows : TRUE
         IN  r.points + SumScores(rows \ {r})

SeasonTotals(sc) ==
    {[user |-> p[1], league |-> p[2],
      total |-> SumScores({s \in sc : s.user = p[1] /\ s.league = p[2]})] :
        p \in {<<s.user, s.league>> : s \in sc}}

\* revision 1, step 4: INSERT ... SELECT ... ON CONFLICT (user_id, league_id)
\* DO UPDATE SET total_score
UpsertStandings(st, sc) ==
    LET new == SeasonTotals(sc)
    IN  {t \in st : ~\E n \in new : n.user = t.user /\ n.league = t.league} \cup new

\* revision 2, step 3, first statement: DELETE FROM league_standings
DeleteStandings(st) == {}

\* revision 2, step 3, second statement: INSERT ... SELECT, no ON CONFLICT.
\* league_standings holds one row per (user, league); an INSERT of a second
\* one is refused and the statement fails as a whole.
InsertStandingsFails(st, sc) ==
    \E t \in st, n \in SeasonTotals(sc) : n.user = t.user /\ n.league = t.league

InsertStandings(st, sc) == st \cup SeasonTotals(sc)

----------------------------------------------------------------------------
(* The inputs                                                              *)

\* league_members: each user in a league of their own, or u1 in both leagues
OwnLeagues ==
    {[id |-> 1, league |-> "l1", user |-> "u1"], [id |-> 2, league |-> "l2", user |-> "u2"]}

MemberChoices == {OwnLeagues, OwnLeagues \cup {[id |-> 3, league |-> "l2", user |-> "u1"]}}

\* leagues: the two leagues, each created by its first member
StoredLeagues ==
    {[id |-> "l1", code |-> "c1", by |-> "u1"], [id |-> "l2", code |-> "c2", by |-> "u2"]}

\* The callers of the league endpoints, one request each, in flight together
Requests == {"r1", "r2", "r3"}

\* reqs[r]: no request in flight.  kind is the endpoint, pc the statement it
\* runs next, user its userId, code its inviteCode, league the id its first
\* statement gave, hit whether its INSERT met a row of the same (league, user).
NoRequest ==
    [kind |-> "none", pc |-> "idle", user |-> "", code |-> "", league |-> "", hit |-> FALSE]

\* queen_box_scores: qa has two scoring events in episode 1 and none in
\* episode 2, qb has one in episode 2 and none in episode 1
BoxChoices ==
    {{[id |-> 1, queen |-> "qa", ep |-> 1, points |-> 3],
      [id |-> 2, queen |-> "qa", ep |-> 1, points |-> 4],
      [id |-> 3, queen |-> "qb", ep |-> 2, points |-> 5]}}

\* settings: no multiplier is configured
SettingsChoices == {<<>>}

\* settings: multiplier_rank_1 is absent, a number, zero, or not a number
SettingsInputs ==
    {<<>>} \cup
    {[k \in {"multiplier_rank_1"} |-> val] :
        val \in {<<"3">>, <<"0">>, <<"a", "b", "c">>}}

Pick(q, r) == [queen_name |-> q, rank |-> r]

\* The `selections` arrays a user submits
SelectionChoices ==
    {<<>>,
     <<Pick("qa", 1)>>,
     <<Pick("qb", 1)>>,
     <<Pick("qa", 1), Pick("qb", 2)>>,
     <<Pick("qa", 1), Pick("qa", 5)>>,
     <<Pick("qa", 1), Pick("qb", 1)>>}

\* The `multipliers` argument of revision 2: what the revision's
\* formatMultipliers gives for the settings
MultiplierInputs(sett) == {formatMultipliersV2(sett)}

EmptyBag == [r \in {} |-> 0]

\* The callers of recalculateScores that may be in flight together
Procs == {"p1", "p2"}

\* proc[p]: no call in flight.  pc is the statement the call runs next, ep its
\* episodeNumber, rows what step 1 read, pm its pointsMap, mults its
\* multipliers, pending the rows its loop has still to write, pre the tables
\* <<user_queen_scores, league_standings>> when the call started, mid
\* league_standings when its rebuild started and at the statement that failed,
\* if one did.
Idle ==
    [pc |-> "idle", ep |-> 0, rows |-> {}, pm |-> <<>>, mults |-> <<>>, pending |-> {},
     pre |-> <<{}, {}>>, mid |-> {}, at |-> ""]

\* saver: no call in flight.  rest is the part of `selections` still to insert.
NoSave == [pc |-> "idle", user |-> "", league |-> "", ep |-> 0, rest |-> <<>>]

\* last: no handler has completed yet.  op is the handler that completed last.
\* After recalculateScores: ep its episode, mults its multipliers, n how many
\* runs in a row had these arguments, first the tables the first of them left.
\* After saveRosterSelection: user, league, ep and sel its arguments, before
\* the rosters table when it was called.
NoRun ==
    [op |-> "none", ep |-> 0, mults |-> <<>>, n |-> 0, first |-> <<{}, {}>>,
     user |-> "", league |-> "", sel |-> <<>>, before |-> EmptyBag]

Init ==
    /\ version \in {1, 2}
    /\ leagues = StoredLeagues
    /\ reqs = [r \in Requests |-> NoRequest]
    /\ members \in MemberChoices
    /\ box \in BoxChoices
    /\ settings \in SettingsChoices
    /\ rosters = EmptyBag
    /\ scores = {}
    /\ standings = {}
    /\ saves = 0
    /\ runs = 0
    /\ last = NoRun
    /\ proc = [p \in Procs |-> Idle]
    /\ saver = NoSave
    /\ failures = 0

----------------------------------------------------------------------------
(* The handlers, each run from its first statement to its last             *)

SaveRoster(u, l, e, sel) ==
    /\ saves < MaxSaves
    /\ rosters' = saveRosterSelection(rosters, u, l, e, sel)
    /\ saves' = saves + 1
    /\ last' = [NoRun EXCEPT !.op = "save", !.ep = e, !.user = u, !.league = l,
                              !.sel = sel, !.before = rosters]
    /\ UNCHANGED <<version, leagues, reqs, members, box, settings, scores, standings, runs>>
    /\ UNCHANGED inflight

\* The rows the loop of recalculateScores(e) writes
Candidates(v, ros, mem, bx, sett, e, multipliers) ==
    IF v = 1 THEN CandidatesV1(ros, bx, sett, e)
    ELSE CandidatesV2(ros, mem, bx, e, multipliers)

\* The rebuild of league_standings that ends recalculateScores
RebuildStandings(v, st, sc) ==
    IF v = 1 THEN UpsertStandings(st, sc)
    ELSE InsertStandings(DeleteStandings(st), sc)

\* last, after a run of recalculateScores(e) that left <<sc, st>>
RunRecord(e, multipliers, sc, st) ==
    LET again == last.op = "recalc" /\ last.ep = e /\ last.mults = multipliers
    IN  [NoRun EXCEPT !.op = "recalc", !.ep = e, !.mults = multipliers,
                      !.n = IF again THEN last.n + 1 ELSE 1,
                      !.first = IF again THEN last.first ELSE <<sc, st>>]

Recalculate(e, multipliers) ==
    /\ runs < MaxRuns
    /\ \E sc \in PersistAll(version, scores,
                     Candidates(version, rosters, members, box, settings, e, multipliers)) :
          /\ scores' = sc
          /\ standings' = RebuildStandings(version, standings, sc)
          /\ last' = RunRecord(e, multipliers, sc, RebuildStandings(version, standings, sc))
    /\ runs' = runs + 1
    /\ UNCHANGED <<version, leagues, reqs, members, box, settings, rosters, saves>>
    /\ UNCHANGED inflight

RecalculateV1 ==
    /\ version = 1
    /\ \E e \in Episodes : Recalculate(e, formatMultipliersV1(settings))

RecalculateV2 ==
    /\ version = 2
    /\ \E e \in Episodes, multipliers \in MultiplierInputs(settings) :
          Recalculate(e, multipliers)

\* A user submits rosters in the leagues they belong to
SaveRosterSelection ==
    \E m \in members, e \in Episodes, sel \in SelectionChoices :
        SaveRoster(m.user, m.league, e, sel)

Next == SaveRosterSelection \/ RecalculateV1 \/ RecalculateV2

Spec == Init /\ [][Next]_vars

\* Roster submissions alone; recalculateScores writes nothing to rosters
SpecSaves == Init /\ [][SaveRosterSelection]_vars

\* The same handlers over the settings an operator may have stored
InitInputs ==
    /\ version \in {1, 2}
    /\ leagues = StoredLeagues
    /\ reqs = [r \in Requests |-> NoRequest]
    /\ members = OwnLeagues
    /\ box \in BoxChoices
    /\ settings \in SettingsInputs
    /\ rosters = EmptyBag
    /\ scores = {}
    /\ standings = {}
    /\ saves = 0
    /\ runs = 0
    /\ last = NoRun
    /\ proc = [p \in Procs |-> Idle]
    /\ saver = NoSave
    /\ failures = 0

SpecInputs == InitInputs /\ [][Next]_vars

----------------------------------------------------------------------------
(* The handlers statement by statement.  Each `await sql` is one statement *)
(* of the datastore; between two statements of one call the statements of  *)
(* other calls may run.  No handler opens a transaction or takes a lock.   *)

\* recalculateScores calls started in one behaviour
MaxCalls == 3
\* saveRosterSelection calls started in one behaviour
MaxResubmits == 1
\* statements that fail in one behaviour
MaxFailures == 1

\* The roster that is stored when the calls begin
StoredRoster ==
    saveRosterSelection(EmptyBag, "u1", "l1", 1, <<Pick("qa", 1), Pick("qb", 2)>>)

InitSteps ==
    /\ version \in {1, 2}
    /\ leagues = StoredLeagues
    /\ reqs = [r \in Requests |-> NoRequest]
    /\ members \in MemberChoices
    /\ box \in BoxChoices
    /\ settings \in SettingsChoices
    /\ rosters = StoredRoster
    /\ scores = {}
    /\ standings = {}
    /\ saves = 0
    /\ runs = 0
    /\ last = NoRun
    /\ proc = [p \in Procs |-> Idle]
    /\ saver = NoSave
    /\ failures = 0

InFlight(p) == proc[p].pc \notin {"idle", "done", "failed"}

\* recalculateScores(e) is called; revision 2 is handed its multipliers
Start(p, e) ==
    /\ ~InFlight(p)
    /\ runs < MaxCalls
    /\ runs' = runs + 1
    /\ proc' = [proc EXCEPT ![p] =
            [Idle EXCEPT !.pc = IF version = 1 THEN "rosters" ELSE "epPoints",
                         !.ep = e,
                         !.mults = IF version = 1 THEN <<>> ELSE formatMultipliersV2(settings),
                         !.pre = <<scores, standings>>]]
    /\ UNCHANGED <<version, leagues, reqs, members, box, settings, rosters, scores, standings, saves, last,
                   saver, failures>>

\* revision 1, step 1: SELECT ... FROM rosters WHERE episode_number = e
ReadRosters(p) ==
    /\ version = 1
    /\ proc[p].pc = "rosters"
    /\ proc' = [proc EXCEPT ![p].rows = AllRosters(rosters, proc[p].ep), ![p].pc = "box"]
    /\ UNCHANGED <<version, leagues, reqs, members, box, settings, rosters, scores, standings, saves, runs,
                   last, saver, failures>>

\* A read of the box scores that also writes a score row of the episode
ReadBoxScoresAndWrite(p) ==
    /\ version = 1
    /\ proc[p].pc = "box"
    /\ proc' = [proc EXCEPT ![p].pm = PointsMap(box, proc[p].ep), ![p].pc = "settings"]
    /\ scores' = scores \cup {CandidateV1(r, <<>>, <<>>) : r \in proc[p].rows}
    /\ UNCHANGED <<version, leagues, reqs, members, box, settings, rosters, standings, saves,
                   runs, last, saver, failures>>

\* revision 1, step 2: SELECT queen_name, SUM(points) ... GROUP BY queen_name
ReadBoxScores(p) ==
    /\ version = 1
    /\ proc[p].pc = "box"
    /\ proc' = [proc EXCEPT ![p].pm = PointsMap(box, proc[p].ep), ![p].pc = "settings"]
    /\ UNCHANGED <<version, leagues, reqs, members, box, settings, rosters, scores, standings, saves, runs,
                   last, saver, failures>>

\* revision 1: formatMultipliers(await getSettings()); the loop's rows follow
ReadSettings(p) ==
    /\ version = 1
    /\ proc[p].pc = "settings"
    /\ proc' = [proc EXCEPT
            ![p].mults = formatMultipliersV1(settings),
            ![p].pending = {CandidateV1(r, proc[p].pm, formatMultipliersV1(settings)) :
                                r \in proc[p].rows},
            ![p].pc = "loop"]
    /\ UNCHANGED <<version, leagues, reqs, members, box, settings, rosters, scores, standings, saves, runs,
                   last, saver, failures>>

\* revision 2, step 1: the SELECT over rosters, league_members and box scores
ReadEpPoints(p) ==
    /\ version = 2
    /\ proc[p].pc = "epPoints"
    /\ proc' = [proc EXCEPT
            ![p].pending = CandidatesV2(rosters, members, box, proc[p].ep, proc[p].mults),
            ![p].pc = "loop"]
    /\ UNCHANGED <<version, leagues, reqs, members, box, settings, rosters, scores, standings, saves, runs,
                   last, saver, failures>>

\* One INSERT ... ON CONFLICT of the loop, for the row the SELECT gave next
UpsertRow(p) ==
    /\ proc[p].pc = "loop"
    /\ \E c \in proc[p].pending :
          /\ scores' = UpsertScore(version, scores, c)
          /\ proc' = [proc EXCEPT ![p].pending = proc[p].pending \ {c}]
    /\ UNCHANGED <<version, leagues, reqs, members, box, settings, rosters, standings, saves, runs, last,
                   saver, failures>>

\* revision 1, step 4, after the loop: one statement rebuilds the totals
UpsertTotals(p) ==
    /\ version = 1
    /\ proc[p].pc = "loop" /\ proc[p].pending = {}
    /\ standings' = UpsertStandings(standings, scores)
    /\ proc' = [proc EXCEPT ![p].mid = standings, ![p].pc = "done"]
    /\ UNCHANGED <<version, leagues, reqs, members, box, settings, rosters, scores, saves, runs, last,
                   saver, failures>>

\* revision 2, step 3, after the loop: DELETE FROM league_standings
DeleteTotals(p) ==
    /\ version = 2
    /\ proc[p].pc = "loop" /\ proc[p].pending = {}
    /\ standings' = DeleteStandings(standings)
    /\ proc' = [proc EXCEPT ![p].mid = standings, ![p].pc = "insert"]
    /\ UNCHANGED <<version, leagues, reqs, members, box, settings, rosters, scores, saves, runs, last,
                   saver, failures>>

\* revision 2, step 3: INSERT INTO league_standings ... SELECT
InsertTotals(p) ==
    /\ version = 2
    /\ proc[p].pc = "insert"
    /\ IF InsertStandingsFails(standings, scores)
       THEN /\ proc' = [proc EXCEPT ![p].pc = "failed", ![p].at = "insert"]
            /\ UNCHANGED standings
       ELSE /\ standings' = InsertStandings(standings, scores)
            /\ proc' = [proc EXCEPT ![p].pc = "done"]
    /\ UNCHANGED <<version, leagues, reqs, members, box, settings, rosters, scores, saves, runs, last,
                   saver, failures>>

\* A failing statement whose error is swallowed: the call reports success
StatementSwallowed(p) ==
    /\ InFlight(p)
    /\ failures < MaxFailures
    /\ failures' = failures + 1
    /\ proc' = [proc EXCEPT ![p].pc = "done"]
    /\ UNCHANGED <<version, leagues, reqs, members, box, settings, rosters, scores, standings,
                   saves, runs, last, saver>>

\* The statement the call runs next fails: the datastore changes nothing, the
\* rejection leaves recalculateScores, which catches nothing
StatementFails(p) ==
    /\ InFlight(p)
    /\ failures < MaxFailures
    /\ failures' = failures + 1
    /\ proc' = [proc EXCEPT ![p].pc = "failed", ![p].at = proc[p].pc]
    /\ UNCHANGED <<version, leagues, reqs, members, box, settings, rosters, scores, standings, saves, runs,
                   last, saver>>

\* saveRosterSelection is called and runs its DELETE
SaveDelete(u, l, e, sel) ==
    /\ saver.pc = "idle"
    /\ saves < MaxResubmits
    /\ saves' = saves + 1
    /\ rosters' = DeleteRoster(rosters, u, l, e)
    /\ saver' = IF sel = <<>> THEN NoSave
                ELSE [pc |-> "insert", user |-> u, league |-> l, ep |-> e, rest |-> sel]
    /\ UNCHANGED <<version, leagues, reqs, members, box, settings, scores, standings, runs, last, proc,
                   failures>>

\* One INSERT of the loop of saveRosterSelection
SaveInsert ==
    /\ saver.pc = "insert"
    /\ rosters' = InsertRoster(rosters, saver.user, saver.league, saver.ep, Head(saver.rest))
    /\ saver' = IF Tail(saver.rest) = <<>> THEN NoSave
                ELSE [saver EXCEPT !.rest = Tail(saver.rest)]
    /\ UNCHANGED <<version, leagues, reqs, members, box, settings, scores, standings, saves, runs, last,
                   proc, failures>>

\* The `selections` arrays submitted while calls are in flight
ResubmitChoices == {<<Pick("qb", 1)>>, <<Pick("qb", 1), Pick("qa", 2)>>}

Resubmit ==
    \E m \in members, e \in Episodes, sel \in ResubmitChoices :
        SaveDelete(m.user, m.league, e, sel)

RecalculateStep(p) ==
    \/ \E e \in Episodes : Start(p, e)
    \/ ReadRosters(p)
    \/ ReadBoxScores(p)
    \/ ReadSettings(p)
    \/ ReadEpPoints(p)
    \/ UpsertRow(p)
    \/ UpsertTotals(p)
    \/ DeleteTotals(p)
    \/ InsertTotals(p)
    \/ StatementFails(p)

\* Calls of recalculateScores, two of them at a time
NextSteps == \E p \in Procs : RecalculateStep(p)

SpecSteps == InitSteps /\ [][NextSteps]_vars

\* One caller of recalculateScores, call after call
NextRun == RecalculateStep("p1")

SpecRun == InitSteps /\ [][NextRun]_vars

\* The rosters that are stored when u1 has submitted the same roster for both
\* episodes
RostersOfBothEpisodes ==
    saveRosterSelection(StoredRoster, "u1", "l1", 2, <<Pick("qa", 1), Pick("qb", 2)>>)

InitEpisodes ==
    /\ version \in {1, 2}
    /\ leagues = StoredLeagues
    /\ reqs = [r \in Requests |-> NoRequest]
    /\ members \in MemberChoices
    /\ box \in BoxChoices
    /\ settings \in SettingsChoices
    /\ rosters = RostersOfBothEpisodes
    /\ scores = {}
    /\ standings = {}
    /\ saves = 0
    /\ runs = 0
    /\ last = NoRun
    /\ proc = [p \in Procs |-> Idle]
    /\ saver = NoSave
    /\ failures = 0

\* One caller of recalculateScores, call after call, rosters in both episodes
SpecEpisodes == InitEpisodes /\ [][NextRun]_vars

\* One caller of recalculateScores and a user who resubmits a roster
NextEdits ==
    \/ RecalculateStep("p1")
    \/ Resubmit
    \/ SaveInsert

SpecEdits == InitSteps /\ [][NextEdits]_vars

----------------------------------------------------------------------------
(* The claims, on the handlers run one after the other                     *)

\* A run of recalculateScores has just completed: nothing was saved since
RunDone == last.op = "recalc"

\* The roster rows and the score rows of the episode of the last run
RosterOf(e) == {r \in DOMAIN rosters : r.ep = e}

ScoresOf(e) == {s \in scores : s.ep = e}

\* The score rows that carry user, league, contestant and rank of roster row r
RowsFor(r) ==
    {s \in scores : s.user = r.user /\ s.league = r.league /\ s.queen = r.queen
                    /\ s.ep = r.ep /\ s.rank = r.rank}

\* Every stored roster holds one contestant per rank and one rank per
\* contestant, each row once: the rosters the data model admits
WellFormed ==
    \A r \in DOMAIN rosters :
        /\ rosters[r] = 1
        /\ \A r2 \in DOMAIN rosters :
              (r2 # r /\ r2.user = r.user /\ r2.league = r.league /\ r2.ep = r.ep)
              => (r2.rank # r.rank /\ r2.queen # r.queen)

\* C1: after recalculateScores(E) has run N >= 1 times in a row on the same
\* rosters, box scores and multipliers, user_queen_scores and
\* league_standings are what the first of these runs left.  Stated for the
\* rosters the data model admits.
C1_Idempotent == (RunDone /\ WellFormed) => <<scores, standings>> = last.first

\* C2: two different users in two different leagues who both roster the same
\* contestant at rank 1 in episode E each have a row for their own
\* (user, league, contestant, E) after recalculateScores(E).  Stated for the
\* rosters the data model admits.
C2_ConflictKeySound ==
    (RunDone /\ WellFormed) =>
        \A r1, r2 \in RosterOf(last.ep) :
            (r1.user # r2.user /\ r1.league # r2.league /\ r1.queen = r2.queen
                /\ r1.rank = 1 /\ r2.rank = 1)
            => \E s1, s2 \in ScoresOf(last.ep) :
                  /\ s1.user = r1.user /\ s1.league = r1.league /\ s1.queen = r1.queen
                  /\ s2.user = r2.user /\ s2.league = r2.league /\ s2.queen = r2.queen

\* C3: after recalculateScores(E) every roster row of E has exactly one score
\* row with its user, league, contestant and rank, and no score row of E is
\* under a league in which its user has no roster entry for E.  Stated for the rosters the data model admits.
C3_OneRowPerRosterEntry ==
    (RunDone /\ WellFormed) =>
        /\ \A r \in RosterOf(last.ep) : Cardinality(RowsFor(r)) = 1
        /\ \A s \in ScoresOf(last.ep) :
              \E r \in RosterOf(last.ep) : r.user = s.user /\ r.league = s.league

\* C4: after recalculateScores(E) the (user, league, contestant) of the score
\* rows of E are exactly those of the roster rows of E.  Stated of revision 1,
\* whose rows do carry the roster row's league.
C4_ScoresFollowRoster ==
    (version = 1 /\ RunDone) =>
        {<<s.user, s.league, s.queen>> : s \in ScoresOf(last.ep)}
            = {<<r.user, r.league, r.queen>> : r \in RosterOf(last.ep)}

\* The sum of calculated_points of a set of score rows
RECURSIVE TotalPoints(_)
TotalPoints(rows) ==
    IF rows = {} THEN 0
    ELSE LET r == CHOOSE x \in rows : TRUE
         IN  TotalPoints(rows \ {r}) + r.points

PairScores(u, l) == {s \in scores : s.user = u /\ s.league = l}

PairStandings(u, l) == {t \in standings : t.user = u /\ t.league = l}

\* The sum of the points of the box-score rows of (contestant q, episode e)
RECURSIVE TotalBox(_)
TotalBox(rows) ==
    IF rows = {} THEN 0
    ELSE LET r == CHOOSE x \in rows : TRUE
         IN  TotalBox(rows \ {r}) + r.points

ClaimedRaw(q, e) == TotalBox({b \in box : b.queen = q /\ b.ep = e})

\* The multiplier of the claim: the mapping's entry, 1.0 for a rank without one
ClaimedMultiplier(mults, rank) == IF rank \in DOMAIN mults THEN mults[rank] ELSE Num(10)

\* C9: every score row of the episode just recalculated holds
\* rawPoints(contestant) * multiplier(rank), rawPoints the sum of the
\* contestant's box-score rows of the episode (0 without rows) and multiplier
\* the mapping's entry for the rank (1.0 without entry).
C9_WeightedScore ==
    RunDone =>
        \A s \in ScoresOf(last.ep) :
            /\ ~ClaimedMultiplier(last.mults, s.rank).nan
            /\ s.points = Times(10 * ClaimedRaw(s.queen, s.ep),
                                ClaimedMultiplier(last.mults, s.rank).v)

\* C10: the raw points behind every score row of the episode just
\* recalculated are the sum of the contestant's box-score rows of the episode,
\* each row once: the row holds that sum times the multiplier the code applies.
C10_RawPointsSummedOnce ==
    RunDone =>
        \A s \in ScoresOf(last.ep) :
            s.points = Times(10 * ClaimedRaw(s.queen, s.ep),
                             MultiplierFor(last.mults, s.rank))

----------------------------------------------------------------------------
(* The claims, on the handlers statement by statement                      *)

\* league_standings is the season total of every pair with a score row
TotalsMatchScores ==
    \A u \in Users, l \in Leagues :
        IF PairScores(u, l) = {} THEN PairStandings(u, l) = {}
        ELSE PairStandings(u, l) =
                {[user |-> u, league |-> l, total |-> TotalPoints(PairScores(u, l))]}

\* C5: when a call of recalculateScores completes, league_standings holds a
\* row for (user, league) exactly when the pair has a score row, and its total
\* is the sum of the pair's calculated_points over all episodes.
C5_TotalsWhenRunCompletes ==
    [][\A p \in Procs :
          (proc[p].pc # "done" /\ proc'[p].pc = "done") => TotalsMatchScores']_vars

\* C6: while a call rebuilds league_standings, every (user, league) that had
\* a total when the rebuild started still has one.
C6_NoEmptyCache ==
    \A p \in Procs :
        proc[p].pc = "insert" =>
            \A t \in proc[p].mid : PairStandings(t.user, t.league) # {}

\* C7: two calls of recalculateScores for the same episode are never in
\* flight together.
C7_OneRunPerEpisode ==
    \A p, q \in Procs :
        (p # q /\ InFlight(p) /\ InFlight(q)) => proc[p].ep # proc[q].ep

\* C8: a call that fails, the only call there has been, leaves
\* user_queen_scores and league_standings as they were when it started.
C8_AllOrNothing ==
    \A p \in Procs :
        (proc[p].pc = "failed" /\ runs = 1) => <<scores, standings>> = proc[p].pre

----------------------------------------------------------------------------
(* The claims on formatMultipliers and saveRosterSelection                 *)

\* The number a settings mapping configures for rank r, NaN when it has none
ConfiguredValue(sett, r) ==
    IF MultKeys[r] \in DOMAIN sett THEN parseFloat(sett[MultKeys[r]]) ELSE NaN

\* The fixed default of rank r in the deployed revision
DefaultValue(r) == parseFloat(IF version = 1 THEN DefaultsV1[r] ELSE DefaultsV2[r])

\* C11: the mapping formatMultipliers gave the run just completed is defined
\* on ranks 1..4, each value a positive number, and the value is the rank's
\* default when the configured value is missing, unparsable or not positive.
C11_MultipliersResolved ==
    RunDone =>
        \A r \in 1..4 :
            /\ r \in DOMAIN last.mults
            /\ ~last.mults[r].nan
            /\ last.mults[r].v > 0
            /\ (ConfiguredValue(settings, r).nan \/ ConfiguredValue(settings, r).v <= 0)
               => last.mults[r] = DefaultValue(r)

\* How many elements of `sel` name contestant q at rank rk
SelCount(sel, q, rk) ==
    Cardinality({i \in 1..Len(sel) : sel[i].queen_name = q /\ sel[i].rank = rk})

\* How many copies of row r a rosters table holds
Copies(ros, r) == IF r \in DOMAIN ros THEN ros[r] ELSE 0

\* The last handler was saveRosterSelection and r is a row of its (user, league, episode)
Submitted(r) == r.user = last.user /\ r.league = last.league /\ r.ep = last.ep

\* C12: when saveRosterSelection(user, league, episode, selections) has
\* completed, the rosters rows of (user, league, episode) are the selections,
\* one row per element, and every other row of rosters is as it was.
C12_RosterReplaced ==
    last.op = "save" =>
        /\ DOMAIN rosters \subseteq RosterRow
        /\ \A r \in RosterRow :
              Copies(rosters, r) =
                  IF Submitted(r) THEN SelCount(last.sel, r.queen, r.rank)
                  ELSE Copies(last.before, r)

\* A resubmission that drops a stored entry and brings a new one
C12_Replaced ==
    /\ last.op = "save"
    /\ last.sel # <<>>
    /\ \E r \in DOMAIN last.before :
          Submitted(r) /\ SelCount(last.sel, r.queen, r.rank) = 0

----------------------------------------------------------------------------
(* The league endpoints: createLeague and join by invite code, statement   *)
(* by statement.  league_members has a unique index on (league_id,         *)
(* user_id): the join names it as its ON CONFLICT target.                  *)

\* createLeague calls started in one behaviour
MaxCreates == 1

\* The ids the leagues table hands out to new rows, in this order
NewLeagueIds == <<"l3", "l4", "l5", "l6">>

\* The invite codes Math.random may give: a fresh one, or one already in use
CreateCodes == {"c1", "c3"}

\* The invite codes a user may type
JoinCodes == {"c1", "c2", "c3"}

InitLeagues ==
    /\ version \in {1, 2}
    /\ leagues = StoredLeagues
    /\ reqs = [r \in Requests |-> NoRequest]
    /\ members = OwnLeagues
    /\ box \in BoxChoices
    /\ settings \in SettingsChoices
    /\ rosters = EmptyBag
    /\ scores = {}
    /\ standings = {}
    /\ saves = 0
    /\ runs = 0
    /\ last = NoRun
    /\ proc = [p \in Procs |-> Idle]
    /\ saver = NoSave
    /\ failures = 0

\* The tables and calls the league endpoints do not touch
scoring == <<version, box, settings, rosters, scores, standings, saves, runs, last, proc, saver>>

Pending(r) == reqs[r].pc \in {"league", "member", "find", "join"}

Created ==
    Cardinality(leagues) - Cardinality(StoredLeagues)
        + Cardinality({r \in Requests : reqs[r].kind = "create" /\ reqs[r].pc = "league"})

\* A row of league_members with (league l, user u) is stored
IsMember(mem, l, u) == \E m \in mem : m.league = l /\ m.user = u

\* INSERT INTO league_members (league_id, user_id) VALUES (l, u), on a table
\* without a row of (l, u)
InsertMemberRow(mem, l, u) ==
    mem \cup {[id |-> Cardinality(mem) + 1, league |-> l, user |-> u]}

\* An INSERT that stores the row whatever the table holds
InsertMemberAgain(mem, l, u) == InsertMemberRow(mem, l, u)

\* INSERT INTO league_members ... ON CONFLICT (league_id, user_id) DO NOTHING
InsertMemberOnConflict(mem, l, u) ==
    IF IsMember(mem, l, u) THEN mem ELSE InsertMemberRow(mem, l, u)

\* createLeague(u, leagueName) is called and draws its invite code
CreateStart(r, u, code) ==
    /\ reqs[r].kind = "none"
    /\ Created < MaxCreates
    /\ reqs' = [reqs EXCEPT ![r] =
            [NoRequest EXCEPT !.kind = "create", !.pc = "league", !.user = u, !.code = code]]
    /\ UNCHANGED <<leagues, members, failures>>
    /\ UNCHANGED scoring

\* INSERT INTO leagues (invite_code, league_name, created_by) ... RETURNING id
CreateInsertLeague(r) ==
    /\ reqs[r].kind = "create" /\ reqs[r].pc = "league"
    /\ LET new == NewLeagueIds[Cardinality(leagues) - Cardinality(StoredLeagues) + 1]
       IN  /\ leagues' = leagues \cup {[id |-> new, code |-> reqs[r].code, by |-> reqs[r].user]}
           /\ reqs' = [reqs EXCEPT ![r].league = new, ![r].pc = "member"]
    /\ UNCHANGED <<members, failures>>
    /\ UNCHANGED scoring

\* INSERT INTO league_members (league_id, user_id) VALUES (newLeague.id, userId);
\* the unique index refuses a second row of the pair
CreateInsertMember(r) ==
    /\ reqs[r].kind = "create" /\ reqs[r].pc = "member"
    /\ IF IsMember(members, reqs[r].league, reqs[r].user)
       THEN /\ reqs' = [reqs EXCEPT ![r].pc = "failed"]
            /\ UNCHANGED members
       ELSE /\ members' = InsertMemberRow(members, reqs[r].league, reqs[r].user)
            /\ reqs' = [reqs EXCEPT ![r].pc = "done"]
    /\ UNCHANGED <<leagues, failures>>
    /\ UNCHANGED scoring

\* The join endpoint is called by user u with invite code `code`
JoinStart(r, u, code) ==
    /\ reqs[r].kind = "none"
    /\ reqs' = [reqs EXCEPT ![r] =
            [NoRequest EXCEPT !.kind = "join", !.pc = "find", !.user = u, !.code = code]]
    /\ UNCHANGED <<leagues, members, failures>>
    /\ UNCHANGED scoring

\* SELECT id FROM leagues WHERE invite_code = code; the first row is taken
JoinFind(r) ==
    /\ reqs[r].kind = "join" /\ reqs[r].pc = "find"
    /\ IF \E l \in leagues : l.code = reqs[r].code
       THEN \E l \in {x \in leagues : x.code = reqs[r].code} :
                reqs' = [reqs EXCEPT ![r].league = l.id, ![r].pc = "join"]
       ELSE reqs' = [reqs EXCEPT ![r].pc = "done"]
    /\ UNCHANGED <<leagues, members, failures>>
    /\ UNCHANGED scoring

\* INSERT INTO league_members ... ON CONFLICT (league_id, user_id) DO NOTHING
JoinInsert(r) ==
    /\ reqs[r].kind = "join" /\ reqs[r].pc = "join"
    /\ members' = InsertMemberOnConflict(members, reqs[r].league, reqs[r].user)
    /\ reqs' = [reqs EXCEPT ![r].hit = IsMember(members, reqs[r].league, reqs[r].user),
                            ![r].pc = "done"]
    /\ UNCHANGED <<leagues, failures>>
    /\ UNCHANGED scoring

\* The statement the request runs next fails: the datastore changes nothing
\* and the endpoint answers with an error
RequestFails(r) ==
    /\ Pending(r)
    /\ failures < MaxFailures
    /\ failures' = failures + 1
    /\ reqs' = [reqs EXCEPT ![r].pc = "failed"]
    /\ UNCHANGED <<leagues, members>>
    /\ UNCHANGED scoring

LeagueStep(r) ==
    \/ \E u \in Users, code \in CreateCodes : CreateStart(r, u, code)
    \/ CreateInsertLeague(r)
    \/ CreateInsertMember(r)
    \/ \E u \in Users, code \in JoinCodes : JoinStart(r, u, code)
    \/ JoinFind(r)
    \/ JoinInsert(r)
    \/ RequestFails(r)

NextLeagues == \E r \in Requests : LeagueStep(r)

SpecLeagues == InitLeagues /\ [][NextLeagues]_vars

----------------------------------------------------------------------------
(* The claims on the league endpoints                                      *)

\* league_members holds one row at most per (league, user)
MembersUnique ==
    \A m1, m2 \in members : (m1.league = m2.league /\ m1.user = m2.user) => m1 = m2

\* The INSERT of a join by a user who is a member of the league leaves
\* league_members as it is
JoinChangesNothing ==
    \A r \in Requests :
        (reqs[r].pc = "join" /\ reqs'[r].pc = "done"
            /\ IsMember(members, reqs[r].league, reqs[r].user))
        => members' = members

\* C13: whatever league creations and joins by invite code have run, and
\* however their statements interleaved, league_members holds at most one row
\* per (league, user), and a join by a member of the league changes nothing.
C13_MembershipUnique == []MembersUnique /\ [][JoinChangesNothing]_vars

\* A user who was a member of the league has joined it again
C13_JoinedAgain ==
    \E r \in Requests : reqs[r].kind = "join" /\ reqs[r].pc = "done" /\ reqs[r].hit

\* C20: when createLeague has returned or thrown, the league row it inserted
\* and the league_members row of its creator are both stored, or neither is.
C20_BothOrNeither ==
    \A r \in Requests :
        (reqs[r].kind = "create" /\ reqs[r].pc \in {"done", "failed"}) =>
            ((\E l \in leagues : l.id = reqs[r].league)
                <=> IsMember(members, reqs[r].league, reqs[r].user))

----------------------------------------------------------------------------
(* The claims on one call of recalculateScores and on calls beside it      *)

\* The statements of recalculateScores that read
ReadSteps == {"rosters", "box", "settings", "epPoints"}

\* C14: while the loop of recalculateScores(E) is writing, user_queen_scores
\* never shows some rows of the run written and others not: it is as it was
\* when the call started, or every row of the run is written.
C14_ScoresWrittenTogether ==
    \A p \in Procs :
        proc[p].pc = "loop" => (scores = proc[p].pre[1] \/ proc[p].pending = {})

\* A step in which a statement of call p fails
FailsIn(p) == failures' = failures + 1 /\ proc'[p] # proc[p]

\* A step in which call p is called anew
StartsAnew(p) == runs' = runs + 1 /\ proc'[p].pc \in {"rosters", "epPoints"}

\* C15: a statement of a recalculateScores call that fails ends the call as
\* failed, and a failed call runs no further statement: nothing of it changes
\* until recalculateScores is called anew.
C15_NoStepAfterFailure ==
    [][\A p \in Procs :
          /\ FailsIn(p) => proc'[p].pc = "failed"
          /\ proc[p].pc = "failed" => (proc'[p] = proc[p] \/ StartsAnew(p))]_vars

\* A call has failed in its loop, with rows still to write
C15_FailedInLoop ==
    \E p \in Procs : proc[p].pc = "failed" /\ proc[p].at = "loop" /\ proc[p].pending # {}

\* C16: a call that is at a read, or that failed at a read, has written
\* nothing: user_queen_scores and league_standings are as they were when the
\* call started.
C16_ReadsBeforeWrites ==
    \A p \in Procs :
        (proc[p].pc \in ReadSteps \/ (proc[p].pc = "failed" /\ proc[p].at \in ReadSteps))
        => <<scores, standings>> = proc[p].pre

\* A call has failed at a read, on tables an earlier call has filled
C16_FailedAtRead ==
    \E p \in Procs :
        proc[p].pc = "failed" /\ proc[p].at \in ReadSteps /\ scores # {} /\ standings # {}

\* C17: the SELECT by which a call of recalculateScores(E) reads the rosters
\* never runs between the DELETE and the last INSERT of a saveRosterSelection
\* for E: the roster it reads is whole.
C17_RosterSnapshot ==
    [][\A p \in Procs :
          ((proc[p].pc = "rosters" /\ proc'[p].pc = "box")
              \/ (proc[p].pc = "epPoints" /\ proc'[p].pc = "loop"))
          => ~(saver.pc = "insert" /\ saver.ep = proc[p].ep)]_vars

\* C18: two calls of recalculateScores for different episodes, the only calls
\* there have been, with no statement failing in the datastore, both end done
\* and leave league_standings the season total of every pair with a score row.
C18_DifferentEpisodes ==
    \A p, q \in Procs :
        (p # q /\ runs = 2 /\ failures = 0 /\ proc[p].ep # proc[q].ep
            /\ proc[p].pc \in {"done", "failed"} /\ proc[q].pc \in {"done", "failed"})
        => (proc[p].pc = "done" /\ proc[q].pc = "done" /\ TotalsMatchScores)

\* C19: rosters holds one contestant at most per rank of a (user, league,
\* episode), and every stored rank is a positive integer.
C19_RankUnique ==
    \A r \in DOMAIN rosters :
        /\ rosters[r] = 1
        /\ r.rank \in Nat \ {0}
        /\ \A r2 \in DOMAIN rosters :
              (r2.user = r.user /\ r2.league = r.league /\ r2.ep = r.ep /\ r2.rank = r.rank)
              => r2.queen = r.queen

\* The score rows of the episodes other than e
OtherEpisodes(sc, e) == {s \in sc : s.ep # e}

\* C21: no statement of a call recalculateScores(E), and no run of it as a
\* whole, inserts, updates or deletes a user_queen_scores row of an episode
\* other than E.
C21_EpisodeScoped ==
    [][/\ \A p \in Procs :
            proc'[p] # proc[p]
            => OtherEpisodes(scores', proc'[p].ep) = OtherEpisodes(scores, proc'[p].ep)
       /\ (runs' = runs + 1 /\ last'.op = "recalc")
            => OtherEpisodes(scores', last'.ep) = OtherEpisodes(scores, last'.ep)]_vars

\* A call has written rows of its episode into a table that held rows of the
\* other episode when it started
C21_WroteBesideOtherEpisode ==
    \E p \in Procs :
        /\ proc[p].pc = "done"
        /\ OtherEpisodes(proc[p].pre[1], proc[p].ep) # {}
        /\ \E s \in scores : s.ep = proc[p].ep /\ s \notin proc[p].pre[1]

=============================================================================
